---- MODULE Spec2Model ----
(***************************************************************************)
(* Durable orchestration of hudey campaigns: the workflow state machine    *)
(* (models/context.py, agent/hudey_agent.py), the campaign job queue and    *)
(* its worker (backend/db/repositories/job_repo.py, backend/worker.py) and  *)
(* the webhook ingestion (backend/api/routes/webhooks.py,                   *)
(* services/response_router.py).                                            *)
(***************************************************************************)
EXTENDS Integers, Sequences, FiniteSets, TLC

(***************************************************************************)
(* Bounds of the model.                                                     *)
(***************************************************************************)
\* longest creator list / engagement map a tool returns
MaxCreators == 1
\* rejections a human may give during one execution of a campaign
MaxRejections == 1

CreatorIds == {"k1", "k2", "k3"}

CreatorOrder == << "k1", "k2", "k3" >>

\* the list of the first n creators
CreatorList(n) == SubSeq(CreatorOrder, 1, n)

CreatorLists == { CreatorList(n) : n \in 0..MaxCreators }

\* engagement maps over the first n creators, each contacted or responded
EngagementMaps ==
  UNION { { [ i \in 1..n |-> [creator_id |-> CreatorOrder[i], status |-> st[i]] ]
            : st \in [1..n -> {"contacted", "responded"}] }
          : n \in 0..MaxCreators }


(***************************************************************************)
(* models/context.py: CampaignState                                         *)
(***************************************************************************)
StateSeq ==
  << "brief_received", "strategy_draft", "awaiting_brief_approval",
     "creator_discovery", "awaiting_creator_approval", "outreach_draft",
     "awaiting_outreach_approval", "outreach_in_prog", "negotiation",
     "awaiting_terms_approval", "payment_pending", "campaign_active",
     "completed" >>

CampaignState == { StateSeq[i] : i \in 1..Len(StateSeq) }

\* position of a state in the enumeration (the fixed stage sequence)
StateIndex(s) == CHOOSE i \in 1..Len(StateSeq) : StateSeq[i] = s

\* a string that is no member of the enumeration: CampaignState(v) raises on it
BogusState == "no_such_state"

StateStrings == CampaignState \cup {BogusState}

\* CampaignState(v): the enum constructor, ValueError on an unknown value
CampaignStateRaises(v) == v \notin CampaignState

(***************************************************************************)
(* models/campaign.py: EngagementStatus                                     *)
(***************************************************************************)
EngagementStatus == {"contacted", "responded", "negotiating", "agreed", "declined"}

(***************************************************************************)
(* models/actions.py: AgentActionType, AgentAction, ToolResult              *)
(***************************************************************************)
AgentActionType ==
  { "generate_strategy", "find_creators", "draft_outreach", "send_outreach",
    "collect_responses", "negotiate_terms", "request_terms_approval",
    "generate_payment", "monitor_campaign", "generate_report",
    "request_approval", "complete" }

AgentAction(type, requires_approval, approval_type, creator_id) ==
  [ type |-> type, requires_approval |-> requires_approval,
    approval_type |-> approval_type, creator_id |-> creator_id ]

\* The keys of a result's output that update() probes, and "feedback".
OutputKeys ==
  { "strategy", "creators", "outreach_drafts", "outreach_sent", "engagements",
    "counter_offer", "payment_instructions", "monitor_updates", "report",
    "approval_granted", "state", "complete", "feedback", "creator_id" }

\* An output dict: the set of its keys and the values of the keys update() reads.
\* Artifacts are numbers (0 is None), lists are sequences, the engagement map
\* is a sequence of (creator_id, status) pairs in insertion order.
Output(keys, num, list, engs, state, granted, feedback, creator_id) ==
  [ keys |-> keys, num |-> num, list |-> list, engagements |-> engs,
    state |-> state, approval_granted |-> granted, feedback |-> feedback,
    creator_id |-> creator_id, complete |-> ("complete" \in keys) ]

EmptyOutput == Output({}, 0, << >>, << >>, "", FALSE, "", "")

\* ToolResult(success, output): output None is has_output = FALSE
ToolResult(success, has_output, output) ==
  [ success |-> success, has_output |-> has_output, output |-> output ]

(***************************************************************************)
(* models/context.py: CampaignContext                                       *)
(***************************************************************************)
Context(state) ==
  [ state |-> state, strategy |-> 0, creators |-> << >>,
    outreach_drafts |-> << >>, outreach_sent |-> 0, engagements |-> << >>,
    pending_counter_offer |-> 0, pending_creator_id |-> "",
    monitor_updates |-> << >>, report |-> 0, history |-> << >> ]

from_brief == Context("brief_received")

is_complete(c) == c.state = "completed"

\* mutant: a transition table that chains gate to gate
advance_chained(s) ==
  CASE s = "awaiting_brief_approval" -> "awaiting_creator_approval"
    [] s = "awaiting_creator_approval" -> "awaiting_outreach_approval"
    [] s = "awaiting_outreach_approval" -> "outreach_in_prog"
    [] s = "awaiting_terms_approval" -> "payment_pending"
    [] OTHER -> s

\* mutant: the creator gate advances to a stage already passed
advance_regress(s) ==
  CASE s = "awaiting_brief_approval" -> "creator_discovery"
    [] s = "awaiting_creator_approval" -> "strategy_draft"
    [] s = "awaiting_outreach_approval" -> "outreach_in_prog"
    [] s = "awaiting_terms_approval" -> "payment_pending"
    [] OTHER -> s

\* _advance_after_approval: transitions.get(self.state, self.state)
advance_after_approval(s) ==
  CASE s = "awaiting_brief_approval" -> "creator_discovery"
    [] s = "awaiting_creator_approval" -> "outreach_draft"
    [] s = "awaiting_outreach_approval" -> "outreach_in_prog"
    [] s = "awaiting_terms_approval" -> "payment_pending"
    [] OTHER -> s

\* mutant: the terms gate reverts forward, to payment_pending
revert_forward(s) ==
  CASE s = "awaiting_brief_approval" -> "strategy_draft"
    [] s = "awaiting_creator_approval" -> "creator_discovery"
    [] s = "awaiting_outreach_approval" -> "outreach_draft"
    [] s = "awaiting_terms_approval" -> "payment_pending"
    [] OTHER -> s

\* mutant: a rejection of a reverted state reverts once more
revert_chained(s) ==
  CASE s = "awaiting_brief_approval" -> "strategy_draft"
    [] s = "awaiting_creator_approval" -> "creator_discovery"
    [] s = "awaiting_outreach_approval" -> "outreach_draft"
    [] s = "awaiting_terms_approval" -> "negotiation"
    [] s = "strategy_draft" -> "brief_received"
    [] s = "creator_discovery" -> "strategy_draft"
    [] s = "outreach_draft" -> "creator_discovery"
    [] OTHER -> s

\* _handle_rejection's table: revert.get(self.state, self.state)
revert_state(s) ==
  CASE s = "awaiting_brief_approval" -> "strategy_draft"
    [] s = "awaiting_creator_approval" -> "creator_discovery"
    [] s = "awaiting_outreach_approval" -> "outreach_draft"
    [] s = "awaiting_terms_approval" -> "negotiation"
    [] OTHER -> s

\* mutant: the rejection replaces the log by its feedback entry
handle_rejection_rewrites(c, feedback) ==
  [ c EXCEPT !.state = revert_state(c.state),
             !.history = IF feedback # ""
                         THEN << [rejection_feedback |-> feedback] >>
                         ELSE c.history ]

\* _handle_rejection(feedback): revert, then log the feedback if there is any
handle_rejection(c, feedback) ==
  [ c EXCEPT !.state = revert_state(c.state),
             !.history = IF feedback # ""
                         THEN Append(c.history, [rejection_feedback |-> feedback])
                         ELSE c.history ]

\* `if output.get("state"): CampaignState(output["state"]) else default`
StateOr(o, default) == IF o.state # "" THEN o.state ELSE default

\* the branch of update() a successful result takes reads output["state"]
ReadsStateField(o) ==
  /\ "strategy" \notin o.keys /\ "creators" \notin o.keys
  /\ "outreach_drafts" \notin o.keys
  /\ \/ "outreach_sent" \in o.keys
     \/ "engagements" \in o.keys
     \/ /\ "counter_offer" \notin o.keys
        /\ \/ "payment_instructions" \in o.keys
           \/ "monitor_updates" \in o.keys
           \/ /\ "report" \notin o.keys /\ "approval_granted" \notin o.keys
              /\ "state" \in o.keys

\* update() raises ValueError: the enum constructor rejects output["state"]
update_raises(r) ==
  /\ r.success
  /\ r.has_output
  /\ ReadsStateField(r.output)
  /\ r.output.state # ""
  /\ CampaignStateRaises(r.output.state)

\* The mutation of the branch taken, before history is appended (lines 84-148).
update_branch(c, o) ==
  IF "strategy" \in o.keys THEN
    [c EXCEPT !.strategy = o.num, !.state = "strategy_draft"]
  ELSE IF "creators" \in o.keys THEN
    [c EXCEPT !.creators = o.list, !.state = "creator_discovery"]
  ELSE IF "outreach_drafts" \in o.keys THEN
    [c EXCEPT !.outreach_drafts = o.list, !.state = "outreach_draft"]
  ELSE IF "outreach_sent" \in o.keys THEN
    [c EXCEPT !.outreach_sent = o.num,
              !.state = IF CampaignStateRaises(StateOr(o, "outreach_in_prog"))
                        THEN @ ELSE StateOr(o, "outreach_in_prog")]
  ELSE IF "engagements" \in o.keys THEN
    [c EXCEPT !.engagements = o.engagements,
              !.state = IF CampaignStateRaises(StateOr(o, "negotiation"))
                        THEN @ ELSE StateOr(o, "negotiation")]
  ELSE IF "counter_offer" \in o.keys THEN
    [c EXCEPT !.pending_counter_offer = o.num,
              !.pending_creator_id = o.creator_id,
              !.state = "awaiting_terms_approval"]
  ELSE IF "payment_instructions" \in o.keys THEN
    [c EXCEPT !.state = IF CampaignStateRaises(StateOr(o, "campaign_active"))
                        THEN @ ELSE StateOr(o, "campaign_active")]
  ELSE IF "monitor_updates" \in o.keys THEN
    [c EXCEPT !.monitor_updates = o.list,
              !.state = IF CampaignStateRaises(StateOr(o, "campaign_active"))
                        THEN @ ELSE StateOr(o, "campaign_active")]
  ELSE IF "report" \in o.keys THEN
    [c EXCEPT !.report = o.num, !.state = "completed"]
  ELSE IF "approval_granted" \in o.keys THEN
    IF o.approval_granted
    THEN [c EXCEPT !.state = advance_after_approval(c.state)]
    ELSE handle_rejection(c, o.feedback)
  ELSE IF "state" \in o.keys THEN
    [c EXCEPT !.state = IF CampaignStateRaises(o.state) THEN @ ELSE o.state]
  ELSE IF "complete" \in o.keys /\ o.complete THEN
    [c EXCEPT !.state = "completed"]
  ELSE c

\* mutant: a failed result is logged in history like a successful one
update_logs_failure(c, r) ==
  LET o == IF r.has_output THEN r.output ELSE EmptyOutput
      c1 == IF r.success THEN update_branch(c, o) ELSE c
  IN  IF update_raises(r) THEN c1
      ELSE [c1 EXCEPT !.history =
              Append(@, [state |-> c1.state, output_keys |-> o.keys])]

\* CampaignContext.update(result).  When it raises, the artifact assigned
\* before the raise stays assigned, the state is unchanged and history is not
\* appended.
update(c, r) ==
  IF ~r.success THEN c
  ELSE
    LET o == IF r.has_output THEN r.output ELSE EmptyOutput
        c1 == update_branch(c, o)
    IN  IF update_raises(r) THEN c1
        ELSE [c1 EXCEPT !.history =
                Append(@, [state |-> c1.state, output_keys |-> o.keys])]

(***************************************************************************)
(* agent/hudey_agent.py: HudeyAgent.reason                                  *)
(***************************************************************************)
\* creator ids of the engagements with status responded, in map order
Responded(engs) ==
  SelectSeq(engs, LAMBDA e : e.status = "responded")

\* The branches of reason(), one per state, in the order of the code; `last`
\* is what the function returns when no branch matched.
reason_branches(c, last) ==
  IF c.state = "brief_received" THEN
    AgentAction("generate_strategy", FALSE, "", "")
  ELSE IF c.state = "strategy_draft" THEN
    AgentAction("request_approval", TRUE, "strategy", "")
  ELSE IF c.state = "awaiting_brief_approval" THEN
    AgentAction("find_creators", FALSE, "", "")
  ELSE IF c.state = "creator_discovery" THEN
    IF c.creators = << >>
    THEN AgentAction("find_creators", FALSE, "", "")
    ELSE AgentAction("request_approval", TRUE, "creators", "")
  ELSE IF c.state = "awaiting_creator_approval" THEN
    AgentAction("draft_outreach", FALSE, "", "")
  ELSE IF c.state = "outreach_draft" THEN
    IF c.outreach_drafts = << >>
    THEN AgentAction("draft_outreach", FALSE, "", "")
    ELSE AgentAction("request_approval", TRUE, "outreach", "")
  ELSE IF c.state = "outreach_in_prog" THEN
    AgentAction("send_outreach", FALSE, "", "")
  ELSE IF c.state = "negotiation" THEN
    IF c.engagements = << >>
    THEN AgentAction("collect_responses", FALSE, "", "")
    ELSE IF Responded(c.engagements) # << >>
    THEN AgentAction("negotiate_terms", FALSE, "",
                     Responded(c.engagements)[1].creator_id)
    ELSE AgentAction("collect_responses", FALSE, "", "")
  ELSE IF c.state = "awaiting_terms_approval" THEN
    AgentAction("request_terms_approval", TRUE, "terms", "")
  ELSE IF c.state = "payment_pending" THEN
    AgentAction("generate_payment", FALSE, "", c.pending_creator_id)
  ELSE IF c.state = "campaign_active" THEN
    IF c.monitor_updates = << >>
    THEN AgentAction("monitor_campaign", FALSE, "", "")
    ELSE IF c.report = 0
    THEN AgentAction("generate_report", FALSE, "", "")
    ELSE AgentAction("complete", FALSE, "", "")
  ELSE IF c.state = "awaiting_outreach_approval" THEN
    AgentAction("request_approval", TRUE, "outreach", "")
  ELSE
    last

\* mutant: the final return is missing, so an unmatched state yields None
reason_no_fallthrough(c) ==
  reason_branches(c, AgentAction("None", FALSE, "", ""))

\* reason(context): the deterministic state machine; the last return is the
\* catch-all "No further actions." COMPLETE
reason(c) ==
  reason_branches(c, AgentAction("complete", FALSE, "", ""))

\* mutant: the gate's state is not entered before the request
set_awaiting_skipped(c) == c

\* _set_awaiting_approval(context): enter the gate's state before the request
set_awaiting_approval(c) ==
  IF c.state = "strategy_draft"
  THEN [c EXCEPT !.state = "awaiting_brief_approval"]
  ELSE IF c.state = "creator_discovery"
  THEN [c EXCEPT !.state = "awaiting_creator_approval"]
  ELSE IF c.state = "outreach_draft"
  THEN [c EXCEPT !.state = "awaiting_outreach_approval"]
  ELSE c

(***************************************************************************)
(* Tools: the results execute_action() can return for an action            *)
(* (tools/*.py, HudeyAgent.execute_action).                                 *)
(***************************************************************************)
Failure == ToolResult(FALSE, FALSE, EmptyOutput)

Success(o) == ToolResult(TRUE, TRUE, o)

\* collect_responses: next_state is negotiation iff some engagement responded
CollectResult(e) ==
  Success(Output({"engagements", "state"}, 0, << >>, e,
                 IF Responded(e) # << >> THEN "negotiation" ELSE "campaign_active",
                 FALSE, "", ""))

\* The results a tool returns for action a in context c (the ones that do
\* not raise).
ToolResults(a, c) ==
  IF a.type = "generate_strategy" THEN
    { Success(Output({"strategy"}, 1, << >>, << >>, "", FALSE, "", "")) }
  ELSE IF a.type = "find_creators" THEN
    IF c.strategy = 0 THEN { Failure }
    ELSE { Success(Output({"creators"}, 0, l, << >>, "", FALSE, "", ""))
             : l \in CreatorLists \ { << >> } } \cup { Failure }
  ELSE IF a.type = "draft_outreach" THEN
    IF c.creators = << >> THEN { Failure }
    ELSE { Success(Output({"outreach_drafts"}, 0, c.creators, << >>, "", FALSE, "", "")) }
  ELSE IF a.type = "send_outreach" THEN
    IF c.outreach_drafts = << >> THEN { Failure }
    ELSE { Success(Output({"outreach_sent", "state"}, 1, << >>, << >>,
                          "negotiation", FALSE, "", "")) }
  ELSE IF a.type = "collect_responses" THEN
    { CollectResult(e) : e \in EngagementMaps }
  ELSE IF a.type = "negotiate_terms" THEN
    IF a.creator_id = "" THEN { Failure }
    ELSE { Success(Output({"counter_offer", "creator_id"}, 1, << >>, << >>,
                          "", FALSE, "", a.creator_id)) }
  ELSE IF a.type = "generate_payment" THEN
    IF c.pending_counter_offer = 0 THEN { Failure }
    ELSE { Success(Output({"payment_instructions", "state"}, 0, << >>, << >>,
                          "campaign_active", FALSE, "", "")),
           Failure }
  ELSE IF a.type = "monitor_campaign" THEN
    IF c.creators = << >> THEN { Failure }
    ELSE { Success(Output({"monitor_updates", "state"}, 0, << "m1" >>, << >>,
                          "campaign_active", FALSE, "", "")) }
  ELSE IF a.type = "generate_report" THEN
    { Success(Output({"report", "state"}, 1, << >>, << >>, "completed", FALSE, "", "")) }
  ELSE IF a.type = "complete" THEN
    { Success(Output({"complete", "state"}, 0, << >>, << >>, "completed", FALSE, "", "")) }
  ELSE { ToolResult(FALSE, FALSE, EmptyOutput) }

(***************************************************************************)
(* Inputs of the state machine: the contexts and results update() and      *)
(* reason() are applied to.                                                 *)
(***************************************************************************)
MonitorLists == { << >>, << "m1" >> }

Feedbacks == { "", "too broad" }

TestContexts ==
  { [ Context(s) EXCEPT !.creators = l, !.outreach_drafts = l,
                        !.strategy = Len(l), !.engagements = e,
                        !.monitor_updates = mr[1], !.report = mr[2] ]
    : s \in CampaignState, l \in CreatorLists, e \in EngagementMaps,
      mr \in { << << >>, 0 >>, << << "m1" >>, 0 >>, << << "m1" >>, 1 >> } }

\* output dicts of every shape update() dispatches on
TestOutputs ==
  { Output({"strategy"}, 1, << >>, << >>, "", FALSE, "", "") }
  \cup { Output({"creators"}, 0, l, << >>, "", FALSE, "", "") : l \in CreatorLists }
  \cup { Output({"outreach_drafts"}, 0, l, << >>, "", FALSE, "", "") : l \in CreatorLists }
  \cup { Output({"outreach_sent", "state"} \ (IF st = "" THEN {"state"} ELSE {}),
                1, << >>, << >>, st, FALSE, "", "")
         : st \in {"", "negotiation", BogusState} }
  \cup { Output({"engagements", "state"} \ (IF st = "" THEN {"state"} ELSE {}),
                0, << >>, e, st, FALSE, "", "")
         : e \in EngagementMaps, st \in {"", "negotiation", "campaign_active"} }
  \cup { Output({"counter_offer", "creator_id"}, 1, << >>, << >>, "", FALSE, "", "k1") }
  \cup { Output({"payment_instructions", "state"} \ (IF st = "" THEN {"state"} ELSE {}),
                0, << >>, << >>, st, FALSE, "", "")
         : st \in {"", "campaign_active"} }
  \cup { Output({"monitor_updates", "state"} \ (IF st = "" THEN {"state"} ELSE {}),
                0, m, << >>, st, FALSE, "", "")
         : m \in MonitorLists, st \in {"", "campaign_active"} }
  \cup { Output({"report", "state"}, 1, << >>, << >>, "completed", FALSE, "", "") }
  \cup { Output({"approval_granted", "request_id"}, 0, << >>, << >>, "", TRUE, "", "") }
  \cup { Output({"approval_granted", "feedback", "request_id"}, 0, << >>, << >>, "",
                g, f, "")
         : g \in BOOLEAN, f \in Feedbacks }
  \cup { Output({"state"}, 0, << >>, << >>, st, FALSE, "", "") : st \in StateStrings }
  \cup { Output({"complete", "state"}, 0, << >>, << >>, "completed", FALSE, "", ""),
         Output({"complete"}, 0, << >>, << >>, "", FALSE, "", ""),
         EmptyOutput }

TestResults ==
  { ToolResult(TRUE, TRUE, o) : o \in TestOutputs }
  \cup { ToolResult(FALSE, TRUE, o) : o \in TestOutputs }
  \cup { ToolResult(TRUE, FALSE, EmptyOutput), ToolResult(FALSE, FALSE, EmptyOutput) }

NoAction == AgentAction("unset", FALSE, "", "")

(***************************************************************************)
(* State of the state-machine checks: a context, the result applied to it, *)
(* the context before and after the first application, and the action      *)
(* reason() returned for the current context.                               *)
(***************************************************************************)
VARIABLES tctx, tres, tbefore, tonce, tapplied, taction

tvars == << tctx, tres, tbefore, tonce, tapplied, taction >>

(***************************************************************************)
(* State of the webhook ingestion: the dedup ledger, the email events, the *)
(* engagement file, and what the last request was and did.                  *)
(***************************************************************************)
VARIABLES
  replies,      \* processed_inbound_replies: the dedup keys recorded
  email_events, \* email_events: (email_id, event_type) -> rows stored
  engagement,   \* campaign_engagements/<campaign>.json: creator -> engagement
  hreq,         \* the last request handled
  hresp,        \* the response it was given
  hprev,        \* the three stores as they were before it
  happlied,     \* the payloads applied successfully before it
  delivered,    \* requests handled so far
  creator_engagements, \* creator_engagements: (campaign, creator) -> row
  elast,        \* the last engagement route called, on which row, its status before
  thread,       \* request in flight -> its handler, where it stands, what it read
  acked         \* the appends that reported success, in the order they returned

hvars == << replies, email_events, engagement, hreq, hresp, hprev, happlied,
            delivered, creator_engagements, elast, thread, acked >>

TInit ==
  /\ tctx \in TestContexts
  /\ tres \in TestResults
  /\ tbefore = tctx
  /\ tonce = tctx
  /\ tapplied = 0
  /\ taction = NoAction

\* the state-machine checks at rest, while the worker and the queue run
TIdle ==
  /\ tctx = from_brief
  /\ tres = Failure
  /\ tbefore = tctx
  /\ tonce = tctx
  /\ tapplied = 0
  /\ taction = NoAction


(***************************************************************************)
(* The store: campaign_jobs, campaigns and approvals tables                 *)
(* (backend/db/repositories/job_repo.py, campaign_repo.py,                  *)
(* approval_repo.py).  A job's id is its campaign's id: campaign_jobs is    *)
(* unique on campaign_id.                                                   *)
(***************************************************************************)
Workers == { "w1", "w2" }
Campaigns == { "c1", "c2" }
None == "None"

\* max_attempts of a job row
MaxAttempts == 3
\* times the run route may start one campaign
MaxRuns == 1
\* worker processes that die
MaxCrashes == 1

JobRow(status, locked_by, attempts, last_error) ==
  [ status |-> status, locked_by |-> locked_by, attempts |-> attempts,
    last_error |-> last_error ]

NoJobRow == JobRow("absent", None, 0, "")

CampaignRow(exists, status, agent_state) ==
  [ exists |-> exists, status |-> status, agent_state |-> agent_state ]

ApprovalRow(id, campaign_id, approval_type, status, feedback) ==
  [ id |-> id, campaign_id |-> campaign_id, approval_type |-> approval_type,
    status |-> status, feedback |-> feedback ]

\* no poll of this worker's gate yet
NoPoll == [ read |-> "none", ret |-> "none" ]

VARIABLES
  jobs,        \* campaign_jobs: campaign id -> row
  jobOrder,    \* the campaign ids of the job rows in created_at order
  campaigns,   \* campaigns: campaign id -> row
  approvals,   \* approvals: the rows still pending or still polled
  wpc,         \* worker process -> where its loop stands ("down": no process)
  wjob,        \* worker -> the job it selected or holds
  wsnap,       \* worker -> job["attempts"] as read by claim_next's select
  wlast,       \* worker -> what its last claim_next() returned
  wrec,        \* worker -> the running jobs recover_stale_jobs still has to reset
  wctx,        \* worker -> the CampaignContext of the execution
  wact,        \* worker -> next_action
  wgate,       \* worker -> which execute_action call of the iteration is the request
  wappr,       \* worker -> id of the approval row it polls
  werr,        \* worker -> consecutive_errors of its request_approval()
  wgot,        \* worker -> what its last poll read and what came of it
  runs,        \* campaign -> times the run route enqueued it
  rejections,  \* campaign -> rejections decided so far
  strategy_runs, \* campaign -> executions of generate_strategy in this run
  failed,      \* campaign -> fail() was called for its job in this run
  crashes,     \* worker processes that died so far
  env,         \* "any": tools may fail and humans reject; "quiet": they do not;
               \* "flaky": tools succeed, humans reject, the store may fail a poll
  winners,     \* campaign -> the callers claim_next() gave its job since it was queued
  losers       \* campaign -> the callers that selected it since then and got None

svars == << jobs, jobOrder, campaigns, approvals, wpc, wjob, wsnap, wlast, wrec,
            wctx, wact, wgate, wappr, werr, wgot, runs, rejections, strategy_runs, failed,
            crashes, env, winners, losers >>

wlocal == << wjob, wsnap, wlast, wrec, wctx, wact, wgate, wappr, werr, wgot >>

SInit ==
  /\ jobs = [c \in Campaigns |-> NoJobRow]
  /\ jobOrder = << >>
  /\ campaigns = [c \in Campaigns |-> CampaignRow(TRUE, "draft", "")]
  /\ approvals = {}
  /\ wpc = [w \in Workers |-> "down"]
  /\ wjob = [w \in Workers |-> None]
  /\ wsnap = [w \in Workers |-> 0]
  /\ wlast = [w \in Workers |-> "unset"]
  /\ wrec = [w \in Workers |-> << >>]
  /\ wctx = [w \in Workers |-> from_brief]
  /\ wact = [w \in Workers |-> NoAction]
  /\ wgate = [w \in Workers |-> "first"]
  /\ wappr = [w \in Workers |-> 0]
  /\ werr = [w \in Workers |-> 0]
  /\ wgot = [w \in Workers |-> NoPoll]
  /\ runs = [c \in Campaigns |-> 0]
  /\ rejections = [c \in Campaigns |-> 0]
  /\ strategy_runs = [c \in Campaigns |-> 0]
  /\ failed = [c \in Campaigns |-> FALSE]
  /\ crashes = 0
  /\ winners = [c \in Campaigns |-> {}]
  /\ losers = [c \in Campaigns |-> {}]

\* update_campaign(campaign_id, updates): no row, no update
set_campaign(cs, c, status, agent_state) ==
  IF cs[c].exists
  THEN [cs EXCEPT ![c] = CampaignRow(TRUE, status, agent_state)]
  ELSE cs

\* _on_step(ctx): db_update(campaign_id, {"agent_state": ctx.state.value})
on_step(cs, c, ctx) == set_campaign(cs, c, cs[c].status, ctx.state)

\* enqueue(campaign_id): upsert of a queued row with cleared bookkeeping
enqueue(js, c) == [js EXCEPT ![c] = JobRow("queued", None, 0, "")]

\* the rows claim_next's select returns: oldest queued first, limit 1
QueuedInOrder(js, order) == SelectSeq(order, LAMBDA c : js[c].status = "queued")

\* mutant: the update carries no status guard
claim_unguarded(row) == row.status # "absent"

\* the guard of claim_next's update: .eq("id", job["id"]).eq("status", "queued")
claim_guard(row) == row.status = "queued"

\* new_status of fail() and recover_stale_jobs()
retry_status(attempts, max_att) == IF attempts < max_att THEN "queued" ELSE "failed"

(***************************************************************************)
(* backend/worker.py: _worker_loop, one process per worker                  *)
(***************************************************************************)
\* start_worker(): the process starts and recover_stale_jobs() selects every
\* running job (id, campaign_id, attempts, max_attempts)
WorkerStart(w) ==
  /\ wpc[w] = "down"
  /\ wpc' = [wpc EXCEPT ![w] = "recover"]
  /\ wrec' = [wrec EXCEPT ![w] =
       LET running == SelectSeq(jobOrder, LAMBDA c : jobs[c].status = "running")
       IN  [ i \in 1..Len(running) |->
               [campaign_id |-> running[i], attempts |-> jobs[running[i]].attempts] ]]
  /\ UNCHANGED << tvars, hvars, crashes, env, winners, losers >>
  /\ UNCHANGED << jobs, jobOrder, campaigns, approvals, wjob, wsnap, wlast,
                  wctx, wact, wgate, wappr, werr, wgot, runs, rejections, strategy_runs,
                  failed >>

\* recover_stale_jobs(), one turn of its loop: reset the job by id and, if it
\* was re-queued, the campaign
RecoverJob(w) ==
  /\ wpc[w] = "recover"
  /\ wrec[w] # << >>
  /\ LET job == Head(wrec[w])
         c == job.campaign_id
         new_status == retry_status(job.attempts, MaxAttempts)
     IN  /\ jobs' = [jobs EXCEPT ![c] =
                       JobRow(new_status, None, @.attempts,
                              "Worker died - recovered on startup")]
         /\ campaigns' = IF new_status = "queued"
                         THEN set_campaign(campaigns, c, "running", "brief_received")
                         ELSE campaigns
         /\ winners' = IF new_status = "queued"
                       THEN [winners EXCEPT ![c] = {}] ELSE winners
         /\ losers' = IF new_status = "queued"
                      THEN [losers EXCEPT ![c] = {}] ELSE losers
  /\ wrec' = [wrec EXCEPT ![w] = Tail(@)]
  /\ UNCHANGED << tvars, hvars, crashes, env >>
  /\ UNCHANGED << jobOrder, approvals, wpc, wjob, wsnap, wlast, wctx, wact,
                  wgate, wappr, werr, wgot, runs, rejections, strategy_runs,
                  failed >>

\* recover_stale_jobs() returns; the loop starts polling
RecoverDone(w) ==
  /\ wpc[w] = "recover"
  /\ wrec[w] = << >>
  /\ wpc' = [wpc EXCEPT ![w] = "poll"]
  /\ UNCHANGED << tvars, hvars, crashes, env, winners, losers >>
  /\ UNCHANGED << jobs, jobOrder, campaigns, approvals, wlocal, runs,
                  rejections, strategy_runs,
                  failed >>

\* claim_next(), the select: the oldest queued job, or None (then sleep 5 s)
ClaimSelect(w) ==
  /\ wpc[w] = "poll"
  /\ LET queued == QueuedInOrder(jobs, jobOrder)
     IN  IF queued = << >>
         THEN /\ wlast' = [wlast EXCEPT ![w] = "no_job"]
              /\ wjob' = [wjob EXCEPT ![w] = None]
              /\ UNCHANGED << wpc, wsnap >>
         ELSE /\ wpc' = [wpc EXCEPT ![w] = "claim"]
              /\ wjob' = [wjob EXCEPT ![w] = Head(queued)]
              /\ wsnap' = [wsnap EXCEPT ![w] = jobs[Head(queued)].attempts]
              /\ UNCHANGED wlast
  /\ UNCHANGED << tvars, hvars, crashes, env, winners, losers >>
  /\ UNCHANGED << jobs, jobOrder, campaigns, approvals, wrec, wctx, wact,
                  wgate, wappr, werr, wgot, runs, rejections, strategy_runs,
                  failed >>

\* claim_next(), the guarded update: the row if it was still queued, else None
ClaimUpdate(w) ==
  /\ wpc[w] = "claim"
  /\ LET c == wjob[w]
     IN  IF claim_guard(jobs[c])
         THEN /\ jobs' = [jobs EXCEPT ![c] =
                            JobRow("running", w, wsnap[w] + 1, @.last_error)]
              /\ wpc' = [wpc EXCEPT ![w] = "execute"]
              /\ wlast' = [wlast EXCEPT ![w] = "job"]
              /\ winners' = [winners EXCEPT ![c] = @ \cup {w}]
              /\ UNCHANGED losers
         ELSE /\ wpc' = [wpc EXCEPT ![w] = "poll"]
              /\ wlast' = [wlast EXCEPT ![w] = "no_job"]
              /\ losers' = [losers EXCEPT ![c] = @ \cup {w}]
              /\ UNCHANGED << jobs, winners >>
  /\ UNCHANGED << tvars, hvars, crashes, env >>
  /\ UNCHANGED << jobOrder, campaigns, approvals, wjob, wsnap, wrec, wctx, wact,
                  wgate, wappr, werr, wgot, runs, rejections, strategy_runs,
                  failed >>

\* _execute_campaign(campaign_id), lines 30-63: load the campaign (raise if it
\* is gone) and start execute_campaign from CampaignContext.from_brief(brief)
ExecuteStart(w) ==
  /\ wpc[w] = "execute"
  /\ IF campaigns[wjob[w]].exists
     THEN /\ wctx' = [wctx EXCEPT ![w] = from_brief]
          /\ wpc' = [wpc EXCEPT ![w] = "loop"]
     ELSE /\ wpc' = [wpc EXCEPT ![w] = "failing"]
          /\ UNCHANGED wctx
  /\ UNCHANGED << tvars, hvars, crashes, env, winners, losers >>
  /\ UNCHANGED << jobs, jobOrder, campaigns, approvals, wjob, wsnap, wlast,
                  wrec, wact, wgate, wappr, werr, wgot, runs, rejections, strategy_runs,
                  failed >>

\* execute_campaign, lines 337-343: the loop test, reason(), and for a gated
\* action _set_awaiting_approval() and on_step(); an action without a gate is
\* executed by the call of line 353
Loop(w) ==
  /\ wpc[w] = "loop"
  /\ IF is_complete(wctx[w])
     THEN /\ wpc' = [wpc EXCEPT ![w] = "save"]
          /\ UNCHANGED << wctx, wact, wgate, campaigns >>
     ELSE LET a == reason(wctx[w])
              ctx == set_awaiting_approval(wctx[w])
          IN  IF a.requires_approval
              THEN /\ wctx' = [wctx EXCEPT ![w] = ctx]
                   /\ campaigns' = on_step(campaigns, wjob[w], ctx)
                   /\ wact' = [wact EXCEPT ![w] = a]
                   /\ wgate' = [wgate EXCEPT ![w] = "first"]
                   /\ wpc' = [wpc EXCEPT ![w] = "request"]
              ELSE /\ wact' = [wact EXCEPT ![w] = a]
                   /\ wgate' = [wgate EXCEPT ![w] = "second"]
                   /\ wpc' = [wpc EXCEPT ![w] = "act"]
                   /\ UNCHANGED << wctx, campaigns >>
  /\ UNCHANGED << tvars, hvars, crashes, env, winners, losers >>
  /\ UNCHANGED << jobs, jobOrder, approvals, wjob, wsnap, wlast, wrec, wappr, werr, wgot,
                  runs, rejections, strategy_runs,
                  failed >>

\* the actions execute_action() hands to self.approval
IsRequest(a) == a.type \in { "request_approval", "request_terms_approval" }

\* where the loop stands once next_action is known
PcOf(a) == IF IsRequest(a) THEN "request" ELSE "act"

\* create_approval(): the id of the inserted row
NewApprovalId == CHOOSE i \in 1..(Cardinality(approvals) + 1) :
                   \A r \in approvals : r.id # i

\* what request_approval() returns for a decided row
ApprovalResult(row) ==
  Success(Output({"approval_granted", "feedback", "request_id"}, 0, << >>, << >>,
                 "", row.status = "approved", row.feedback, ""))

\* `if consecutive_errors > 20`
MaxPollErrors == 20

\* the except branch of the poll: count the error, give up past the bound,
\* else reset the client, back off and poll again
poll_error(n) ==
  [ consecutive_errors |-> n,
    ret |-> IF n > MaxPollErrors THEN "failure" ELSE "continue" ]

\* mutant: an error while polling is answered like a rejection
poll_error_rejects(status, raised, n) ==
  IF raised = "read" THEN [ consecutive_errors |-> n + 1, ret |-> "rejected" ]
  ELSE IF status = "pending" THEN [ consecutive_errors |-> 0, ret |-> "continue" ]
  ELSE IF status = "approved" /\ raised = "update" THEN poll_error(1)
  ELSE [ consecutive_errors |-> 0,
         ret |-> IF status = "approved" THEN "granted" ELSE "rejected" ]

\* request_approval(), lines 188-221, one turn of the poll: get_approval()
\* raises (raised = "read"), or returns the row with this status and then
\* update_campaign() of an approved row raises (raised = "update") or nothing
\* does (raised = "none")
poll(status, raised, n) ==
  IF raised = "read" THEN poll_error(n + 1)
  ELSE IF status = "pending" THEN [ consecutive_errors |-> 0, ret |-> "continue" ]
  ELSE IF status = "approved" /\ raised = "update" THEN poll_error(1)
  ELSE [ consecutive_errors |-> 0,
         ret |-> IF status = "approved" THEN "granted" ELSE "rejected" ]

\* execute_campaign after an execute_action() call returned r: context.update,
\* on_step, and the rest of the iteration.  In the gate (lines 344-350) a
\* result without approval continues the loop, a result without output
\* raises on result.output.get, and an approval makes reason() choose the
\* action of the second call.
AfterResult(w, r, cs) ==
  LET c == wjob[w]
      ctx == update(wctx[w], r)
      granted == IF "approval_granted" \in r.output.keys
                 THEN r.output.approval_granted ELSE TRUE
  IN  /\ wctx' = [wctx EXCEPT ![w] = ctx]
      /\ IF update_raises(r)
         THEN /\ campaigns' = cs
              /\ wpc' = [wpc EXCEPT ![w] = "failing"]
              /\ UNCHANGED << wact, wgate >>
         ELSE /\ campaigns' = on_step(cs, c, ctx)
              /\ IF wgate[w] = "first"
                 THEN IF ~r.has_output
                      THEN /\ wpc' = [wpc EXCEPT ![w] = "failing"]
                           /\ UNCHANGED << wact, wgate >>
                      ELSE IF ~granted
                      THEN /\ wpc' = [wpc EXCEPT ![w] = "loop"]
                           /\ UNCHANGED << wact, wgate >>
                      ELSE /\ wact' = [wact EXCEPT ![w] = reason(ctx)]
                           /\ wgate' = [wgate EXCEPT ![w] = "second"]
                           /\ wpc' = [wpc EXCEPT ![w] = PcOf(reason(ctx))]
                 ELSE /\ wpc' = [wpc EXCEPT ![w] = "loop"]
                      /\ UNCHANGED << wact, wgate >>

\* request_approval(), lines 159-181: create_approval() inserts a pending row
\* and the campaign is marked awaiting_approval
Request(w) ==
  /\ wpc[w] = "request"
  /\ LET id == NewApprovalId
     IN  /\ approvals' = approvals \cup
              { ApprovalRow(id, wjob[w], wact[w].approval_type, "pending", "") }
         /\ wappr' = [wappr EXCEPT ![w] = id]
  /\ werr' = [werr EXCEPT ![w] = 0]
  /\ wgot' = [wgot EXCEPT ![w] = NoPoll]
  /\ campaigns' = set_campaign(campaigns, wjob[w], "awaiting_approval", wctx[w].state)
  /\ wpc' = [wpc EXCEPT ![w] = "wait"]
  /\ UNCHANGED << tvars, hvars, crashes, env, winners, losers >>
  /\ UNCHANGED << jobs, jobOrder, wjob, wsnap, wlast, wrec, wctx, wact, wgate,
                  runs, rejections, strategy_runs,
                  failed >>

\* request_approval(), lines 171-175: create_approval() returned None
RequestFails(w) ==
  /\ wpc[w] = "request"
  /\ env = "any"
  /\ AfterResult(w, Failure, campaigns)
  /\ UNCHANGED << tvars, hvars, crashes, env, winners, losers >>
  /\ UNCHANGED << jobs, jobOrder, approvals, wjob, wsnap, wlast, wrec, wappr, werr, wgot,
                  runs, rejections, strategy_runs,
                  failed >>

\* one turn of worker w's poll of this row: the counter and what the turn
\* read are kept; the poll goes on, or request_approval() returns and
\* execute_campaign goes on with its result
Polled(w, row, raised) ==
  LET p == poll(row.status, raised, werr[w])
      granted == p.ret = "granted"
      decision == [row EXCEPT !.status = IF granted THEN "approved" ELSE "rejected"]
  IN  /\ werr' = [werr EXCEPT ![w] = p.consecutive_errors]
      /\ wgot' = [wgot EXCEPT ![w] =
                    [ read |-> IF raised = "read" THEN "error" ELSE row.status,
                      ret |-> p.ret ]]
      /\ CASE p.ret = "continue" ->
                UNCHANGED << approvals, campaigns, wpc, wctx, wact, wgate, wappr >>
           [] p.ret = "failure" ->
                /\ wappr' = [wappr EXCEPT ![w] = 0]
                /\ AfterResult(w, Failure, campaigns)
                /\ UNCHANGED approvals
           [] OTHER ->
                /\ wappr' = [wappr EXCEPT ![w] = 0]
                /\ approvals' = approvals \ {row}
                /\ AfterResult(w, ApprovalResult(decision),
                               IF granted
                               THEN set_campaign(campaigns, wjob[w], "running",
                                                 campaigns[wjob[w]].agent_state)
                               ELSE campaigns)

\* request_approval(), lines 190-204: the poll that finds the row decided
Wait(w) ==
  /\ wpc[w] = "wait"
  /\ \E row \in approvals :
       /\ row.id = wappr[w]
       /\ row.status # "pending"
       /\ Polled(w, row, "none")
  /\ UNCHANGED << tvars, hvars, crashes, env, winners, losers >>
  /\ UNCHANGED << jobs, jobOrder, wjob, wsnap, wlast, wrec, runs, rejections,
                  strategy_runs,
                  failed >>

\* request_approval(), lines 190-192 and 221: a poll after an error that
\* finds the row still pending
PollPending(w) ==
  /\ wpc[w] = "wait"
  /\ werr[w] # 0
  /\ \E row \in approvals :
       /\ row.id = wappr[w]
       /\ row.status = "pending"
       /\ Polled(w, row, "none")
  /\ UNCHANGED << tvars, hvars, crashes, env, winners, losers >>
  /\ UNCHANGED << jobs, jobOrder, wjob, wsnap, wlast, wrec, runs, rejections,
                  strategy_runs,
                  failed >>

\* request_approval(), lines 205-220: get_approval() raises, or
\* update_campaign() raises after an approved row was read
PollFails(w) ==
  /\ wpc[w] = "wait"
  /\ env = "flaky"
  /\ \E row \in approvals :
       /\ row.id = wappr[w]
       /\ \E raised \in { "read" } \cup
                         ( IF row.status = "approved" THEN { "update" } ELSE {} ) :
            Polled(w, row, raised)
  /\ UNCHANGED << tvars, hvars, crashes, env, winners, losers >>
  /\ UNCHANGED << jobs, jobOrder, wjob, wsnap, wlast, wrec, runs, rejections,
                  strategy_runs,
                  failed >>

\* a result of the quiet environment: the tool succeeds, no creator replied
Quiet(r) ==
  /\ r.success
  /\ "engagements" \in r.output.keys => r.output.engagements = << >>

\* execute_action() of a tool that returns, then the rest of the iteration
Act(w) ==
  /\ wpc[w] = "act"
  /\ \E r \in ToolResults(wact[w], wctx[w]) :
       /\ env # "any" => Quiet(r)
       /\ AfterResult(w, r, campaigns)
  /\ strategy_runs' = IF wact[w].type = "generate_strategy"
                      THEN [strategy_runs EXCEPT ![wjob[w]] = @ + 1]
                      ELSE strategy_runs
  /\ UNCHANGED << tvars, hvars, crashes, env, winners, losers >>
  /\ UNCHANGED << jobs, jobOrder, approvals, wjob, wsnap, wlast, wrec, wappr, werr, wgot,
                  runs, rejections, failed >>

\* generate_strategy() lets the errors of the model call and of
\* _parse_json_response (ValueError) through
Raises(a) == a.type = "generate_strategy"

\* execute_action() raises: the exception leaves execute_campaign
ActRaises(w) ==
  /\ wpc[w] = "act"
  /\ Raises(wact[w])
  /\ wpc' = [wpc EXCEPT ![w] = "failing"]
  /\ UNCHANGED << tvars, hvars, crashes, env, winners, losers >>
  /\ UNCHANGED << jobs, jobOrder, campaigns, approvals, wlocal, runs,
                  rejections, strategy_runs,
                  failed >>

\* _execute_campaign, lines 65-78: execute_campaign returned; save the result
Save(w) ==
  /\ wpc[w] = "save"
  /\ campaigns' = set_campaign(campaigns, wjob[w], "completed", "completed")
  /\ wpc' = [wpc EXCEPT ![w] = "complete"]
  /\ UNCHANGED << tvars, hvars, crashes, env, winners, losers >>
  /\ UNCHANGED << jobs, jobOrder, approvals, wlocal, runs, rejections,
                  strategy_runs, failed >>

\* complete(job_id): the status alone is written, by id
Complete(w) ==
  /\ wpc[w] = "complete"
  /\ jobs' = [jobs EXCEPT ![wjob[w]].status = "completed"]
  /\ wpc' = [wpc EXCEPT ![w] = "poll"]
  /\ UNCHANGED << tvars, hvars, crashes, env, winners, losers >>
  /\ UNCHANGED << jobOrder, campaigns, approvals, wlocal, runs, rejections,
                  strategy_runs, failed >>

\* fail(job_id, error): re-queue while attempts < max_attempts, else failed
Fail(w) ==
  /\ wpc[w] = "failing"
  /\ jobs' = [jobs EXCEPT ![wjob[w]] =
                JobRow(retry_status(@.attempts, MaxAttempts), None, @.attempts, "error")]
  /\ winners' = IF retry_status(jobs[wjob[w]].attempts, MaxAttempts) = "queued"
                THEN [winners EXCEPT ![wjob[w]] = {}] ELSE winners
  /\ losers' = IF retry_status(jobs[wjob[w]].attempts, MaxAttempts) = "queued"
               THEN [losers EXCEPT ![wjob[w]] = {}] ELSE losers
  /\ failed' = [failed EXCEPT ![wjob[w]] = TRUE]
  /\ wpc' = [wpc EXCEPT ![w] = "mark_failed"]
  /\ UNCHANGED << tvars, hvars, crashes, env >>
  /\ UNCHANGED << jobOrder, campaigns, approvals, wlocal, runs, rejections,
                  strategy_runs >>

\* _worker_loop, lines 131-137: the campaign is marked failed whatever fail()
\* made of the job
MarkFailed(w) ==
  /\ wpc[w] = "mark_failed"
  /\ campaigns' = set_campaign(campaigns, wjob[w], "failed", "error")
  /\ wpc' = [wpc EXCEPT ![w] = "poll"]
  /\ UNCHANGED << tvars, hvars, crashes, env, winners, losers >>
  /\ UNCHANGED << jobs, jobOrder, approvals, wlocal, runs, rejections,
                  strategy_runs, failed >>

\* the process dies: everything it held in memory is gone
Crash(w) ==
  /\ wpc[w] # "down"
  /\ crashes < MaxCrashes
  /\ crashes' = crashes + 1
  /\ wpc' = [wpc EXCEPT ![w] = "down"]
  /\ wjob' = [wjob EXCEPT ![w] = None]
  /\ wsnap' = [wsnap EXCEPT ![w] = 0]
  /\ wlast' = [wlast EXCEPT ![w] = "unset"]
  /\ wrec' = [wrec EXCEPT ![w] = << >>]
  /\ wctx' = [wctx EXCEPT ![w] = from_brief]
  /\ wact' = [wact EXCEPT ![w] = NoAction]
  /\ wgate' = [wgate EXCEPT ![w] = "first"]
  /\ wappr' = [wappr EXCEPT ![w] = 0]
  /\ werr' = [werr EXCEPT ![w] = 0]
  /\ wgot' = [wgot EXCEPT ![w] = NoPoll]
  /\ UNCHANGED << tvars, hvars, env, winners, losers >>
  /\ UNCHANGED << jobs, jobOrder, campaigns, approvals, runs, rejections,
                  strategy_runs, failed >>

(***************************************************************************)
(* backend/api/routes: the requests of the brand's user                     *)
(***************************************************************************)
\* POST /{campaign_id}/run: 409 for a running campaign or a queued or running
\* job, else mark the campaign running and enqueue it
run_campaign(c) ==
  /\ runs[c] < MaxRuns
  /\ campaigns[c].exists
  /\ campaigns[c].status # "running"
  /\ jobs[c].status \notin { "queued", "running" }
  /\ campaigns' = set_campaign(campaigns, c, "running", "brief_received")
  /\ jobs' = enqueue(jobs, c)
  /\ jobOrder' = IF jobs[c].status = "absent" THEN Append(jobOrder, c) ELSE jobOrder
  /\ runs' = [runs EXCEPT ![c] = @ + 1]
  /\ rejections' = [rejections EXCEPT ![c] = 0]
  /\ strategy_runs' = [strategy_runs EXCEPT ![c] = 0]
  /\ failed' = [failed EXCEPT ![c] = FALSE]
  /\ winners' = [winners EXCEPT ![c] = {}]
  /\ losers' = [losers EXCEPT ![c] = {}]
  /\ UNCHANGED << tvars, hvars, crashes, env >>
  /\ UNCHANGED << approvals, wpc, wlocal >>

\* DELETE /{campaign_id}: 404 for no campaign, 409 for a campaign whose
\* status is running, else the campaigns row is deleted (a delete the store
\* refuses is answered 500 and changes nothing)
delete_campaign(c) ==
  /\ campaigns[c].exists
  /\ campaigns[c].status # "running"
  /\ campaigns' = [campaigns EXCEPT ![c] = CampaignRow(FALSE, "", "")]
  /\ UNCHANGED << tvars, hvars, crashes, env, winners, losers >>
  /\ UNCHANGED << jobs, jobOrder, approvals, wpc, wlocal, runs, rejections,
                  strategy_runs, failed >>

\* the worker whose request_approval() polls the row
Polling(id) == { w \in Workers : wpc[w] = "wait" /\ wappr[w] = id }

\* PUT /api/approvals/{approval_id}: decide_approval(id, status, feedback)
\* writes the row by id whatever its status.  A row no request polls is read
\* by nobody and leaves the model.
decide_approval(row, status, feedback) ==
  /\ row \in approvals
  /\ status = "rejected" => env # "quiet" /\ rejections[row.campaign_id] < MaxRejections
  /\ approvals' = (approvals \ {row}) \cup
       ( IF Polling(row.id) = {} THEN {}
         ELSE { ApprovalRow(row.id, row.campaign_id, row.approval_type,
                            status, feedback) } )
  /\ rejections' = IF status = "rejected"
                   THEN [rejections EXCEPT ![row.campaign_id] = @ + 1]
                   ELSE rejections
  /\ UNCHANGED << tvars, hvars, crashes, env, winners, losers >>
  /\ UNCHANGED << jobs, jobOrder, campaigns, wpc, wlocal, runs, strategy_runs,
                  failed >>

Decisions == { << "approved", "" >> } \cup { << "rejected", f >> : f \in Feedbacks }

(***************************************************************************)
(* Properties of update() and reason()                                      *)
(***************************************************************************)
AwaitingStates ==
  { "awaiting_brief_approval", "awaiting_creator_approval",
    "awaiting_outreach_approval", "awaiting_terms_approval" }

\* the result is dispatched to the approval branch of update()
IsApprovalResult(r) ==
  /\ r.success /\ r.has_output
  /\ "approval_granted" \in r.output.keys
  /\ r.output.keys \subseteq {"approval_granted", "feedback", "request_id"}

IsRejection(r) == IsApprovalResult(r) /\ ~r.output.approval_granted

\* the predecessor the specification documents for each gate
DocumentedPredecessor(s) ==
  CASE s = "awaiting_brief_approval" -> "strategy_draft"
    [] s = "awaiting_creator_approval" -> "creator_discovery"
    [] s = "awaiting_outreach_approval" -> "outreach_draft"
    [] s = "awaiting_terms_approval" -> "negotiation"

\* C5: update() with approval_granted = false in an Awaiting*Approval state
\* moves the context to that gate's documented predecessor, which is earlier
\* in the stage sequence, never to a later state.
C5_RevertOnRejection ==
  (tapplied = 1 /\ IsRejection(tres) /\ tbefore.state \in AwaitingStates)
    => /\ tctx.state = DocumentedPredecessor(tbefore.state)
       /\ StateIndex(tctx.state) < StateIndex(tbefore.state)

C5_Witness ==
  /\ tapplied = 1 /\ IsRejection(tres)
  /\ tbefore.state = "awaiting_terms_approval"
  /\ tctx.state = "negotiation"

\* the results execute_campaign applies in context c: what the tool of the
\* action reason() chose returns, or an approval decision inside a gate
ValidResult(c, r) ==
  \/ /\ ~reason(c).requires_approval
     /\ r \in ToolResults(reason(c), c)
  \/ /\ c.state \in AwaitingStates
     /\ IsApprovalResult(r)

\* the transition table: stay, move forward in the stage sequence, or revert
\* to the gate's predecessor on a rejection
TableReaches(s, r, t) ==
  \/ t = s
  \/ StateIndex(t) > StateIndex(s)
  \/ IsRejection(r) /\ s \in AwaitingStates /\ t = DocumentedPredecessor(s)

\* C6: a successful result that is valid in state s leaves update() in s, in
\* a later state of the stage sequence, or in the predecessor of the gate on
\* a rejection; whatever the result, the state update() leaves is a member
\* of the CampaignState enumeration.
C6_UpdateFollowsTable ==
  tapplied = 1
    => /\ tctx.state \in CampaignState
       /\ (tres.success /\ ValidResult(tbefore, tres))
            => TableReaches(tbefore.state, tres, tctx.state)

C6_Witness ==
  /\ tapplied = 1
  /\ tbefore.state = "negotiation"
  /\ tres = CollectResult(<< [creator_id |-> "k1", status |-> "contacted"] >>)
  /\ tctx.state = "campaign_active"

\* C7: update() with success = false changes nothing (state, artifacts,
\* history), so reason() gives the action it gave before.
C7_FailureIsNoOp ==
  (tapplied >= 1 /\ ~tres.success)
    => /\ tctx = tbefore
       /\ reason(tctx) = reason(tbefore)
       /\ (taction # NoAction => taction = reason(tbefore))

C7_Witness ==
  /\ tapplied = 1 /\ ~tres.success /\ tres.has_output
  /\ "strategy" \in tres.output.keys
  /\ tbefore.state = "brief_received"
  /\ taction.type = "generate_strategy"

\* C8: applying the same successful result twice leaves the state that
\* applying it once leaves.
C8_IdempotentOnState ==
  (tapplied = 2 /\ tres.success) => tctx.state = tonce.state

C8_Witness ==
  /\ tapplied = 2 /\ IsApprovalResult(tres) /\ tres.output.approval_granted
  /\ tbefore.state = "awaiting_brief_approval"
  /\ tonce.state = "creator_discovery"
  /\ tctx.state = "creator_discovery"

\* C9: reason() returns an action for every state and context content:
\* generate_strategy for brief_received, and complete for completed, the only
\* state without a branch of its own.
C9_ReasonTotal ==
  taction # NoAction
    => /\ taction.type \in AgentActionType
       /\ (tctx.state = "brief_received" => taction.type = "generate_strategy")
       /\ (tctx.state = "completed" => taction.type = "complete")

C9_Witness ==
  /\ taction.type = "complete"
  /\ tctx.state = "completed"
  /\ tctx.creators # << >>

\* sequence a is the beginning of sequence b
IsPrefix(a, b) == Len(a) <= Len(b) /\ SubSeq(b, 1, Len(a)) = a

\* the entries context c1 has after those of c0
Added(c0, c1) == SubSeq(c1.history, Len(c0.history) + 1, Len(c1.history))

\* the entries the claim expects of an update() that made c1 with result r
ExpectedEntries(c1, r) ==
  ( IF IsRejection(r) /\ r.output.feedback # ""
    THEN << [rejection_feedback |-> r.output.feedback] >> ELSE << >> )
  \o << [ state |-> c1.state,
          output_keys |-> IF r.has_output THEN r.output.keys ELSE {} ] >>

\* C25: the history log is append-only and shows every rejection.  update()
\* and _set_awaiting_approval() keep every entry that was there; an update()
\* that succeeds appends one entry with the resulting state; a rejection
\* appends the entry of the reverted-to state, after an entry with the
\* feedback when there is feedback.
C25_HistoryAppendOnly ==
  /\ IsPrefix(tbefore.history, tonce.history)
  /\ IsPrefix(tonce.history, tctx.history)
  /\ set_awaiting_approval(tctx).history = tctx.history
  /\ (tres.success /\ ~update_raises(tres)) =>
       /\ tapplied >= 1 => Added(tbefore, tonce) = ExpectedEntries(tonce, tres)
       /\ tapplied = 2 => Added(tonce, tctx) = ExpectedEntries(tctx, tres)
  /\ (tapplied >= 1 /\ IsRejection(tres)) =>
       tonce.history[Len(tonce.history)].state = revert_state(tbefore.state)
  /\ (tapplied = 2 /\ IsRejection(tres)) =>
       tctx.history[Len(tctx.history)].state = revert_state(tonce.state)

\* a rejection with feedback at the creator gate, applied twice: four
\* entries, the feedback before the state each time
C25_Witness ==
  /\ tapplied = 2 /\ IsRejection(tres) /\ tres.output.feedback = "too broad"
  /\ tbefore.state = "awaiting_creator_approval"
  /\ Len(tctx.history) = 4
  /\ tctx.history[1] = [rejection_feedback |-> "too broad"]
  /\ tctx.history[2].state = "creator_discovery"
  /\ tctx.history[4].state = "creator_discovery"

\* C30: an approval result applied outside an approval gate does not move
\* the instance: in a state that is not an Awaiting*Approval state update()
\* with approval_granted true or false leaves the state as it is; a second
\* rejection finds the reverted state and leaves it, and its feedback is
\* appended to the history all the same.
C30_NoMoveOutsideGate ==
  /\ (tapplied >= 1 /\ IsApprovalResult(tres) /\ tbefore.state \notin AwaitingStates)
       => tonce.state = tbefore.state
  /\ (tapplied = 2 /\ IsApprovalResult(tres) /\ tonce.state \notin AwaitingStates)
       => tctx.state = tonce.state
  /\ (tapplied = 2 /\ IsRejection(tres) /\ tbefore.state \in AwaitingStates)
       => /\ tonce.state \notin AwaitingStates
          /\ tctx.state = revert_state(tbefore.state)
          /\ tres.output.feedback # "" =>
                Added(tonce, tctx)[1] = [rejection_feedback |-> tres.output.feedback]

\* the strategy gate rejected twice with feedback: strategy_draft both times,
\* the second feedback in the third entry
C30_Witness ==
  /\ tapplied = 2 /\ IsRejection(tres) /\ tres.output.feedback = "too broad"
  /\ tbefore.state = "awaiting_brief_approval"
  /\ tonce.state = "strategy_draft"
  /\ tctx.state = "strategy_draft"
  /\ tctx.history[3] = [rejection_feedback |-> "too broad"]

(***************************************************************************)
(* Properties of the queue and of the worker                                *)
(***************************************************************************)
\* where a worker stands while _execute_campaign runs
ExecutingPcs == { "execute", "loop", "request", "wait", "act", "save" }

\* the workers executing campaign c
Executors(c) == { w \in Workers : wpc[w] \in ExecutingPcs /\ wjob[w] = c }

\* C1: of the callers of claim_next() that selected a queued job, whatever
\* the order of their selects and guarded updates, exactly one is given the
\* row, which is then running and locked by that caller alone, and every
\* other one is given None; none is given None while the row is still
\* queued, so of two callers racing for one queued job one wins.
C1_ExactlyOneWinner ==
  \A c \in Campaigns :
    /\ Cardinality(winners[c]) <= 1
    /\ \A w \in winners[c] :
         jobs[c].status = "running" => jobs[c].locked_by = w
    /\ losers[c] \cap winners[c] = {}
    /\ losers[c] # {} => jobs[c].status # "queued"
    /\ \A w \in Workers :
         /\ w \in winners[c] /\ wpc[w] = "execute" => wlast[w] = "job"
         /\ w \in losers[c] /\ wpc[w] = "poll" /\ wjob[w] = c => wlast[w] = "no_job"

C1_Witness ==
  /\ crashes = 0
  /\ winners["c1"] = { "w1" }
  /\ losers["c1"] = { "w2" }
  /\ wpc["w1"] = "execute" /\ wlast["w1"] = "job"
  /\ wpc["w2"] = "poll" /\ wlast["w2"] = "no_job"
  /\ jobs["c1"] = JobRow("running", "w1", 1, "")

\* C2: no campaign is executed by two workers at the same time.
C2_OneExecutor ==
  \A c \in Campaigns : Cardinality(Executors(c)) <= 1

\* C3: a step completed before a crash is not executed again: without a
\* failure, one run of a campaign generates its strategy once.
C3_NoStepRepeated ==
  \A c \in Campaigns : ~failed[c] => strategy_runs[c] <= 1

\* the entries update() appended to history for results carrying key k
Entries(c, k) ==
  SelectSeq(c.history, LAMBDA h : "output_keys" \in DOMAIN h /\ k \in h.output_keys)

\* the strategies generated in this execution, and the rejections of one
StrategiesMade(c) == Len(Entries(c, "strategy"))

StrategyRejections(c) ==
  Len(SelectSeq(Entries(c, "approval_granted"), LAMBDA h : h.state = "strategy_draft"))

\* C10: after a rejection of the strategy, generate_strategy runs again
\* before approval of the strategy is requested again: every request for
\* strategy approval follows a strategy generated after the last rejection.
C10_RejectedStrategyRedone ==
  \A w \in Workers :
    (wpc[w] \in { "request", "wait" } /\ wact[w].approval_type = "strategy")
      => StrategiesMade(wctx[w]) > StrategyRejections(wctx[w])

\* the campaign statuses that say work is happening
InProgress == { "running", "awaiting_approval" }

\* last_error of a job row recover_stale_jobs() wrote last
Recovered(c) == jobs[c].last_error = "Worker died - recovered on startup"

\* C12: when recover_stale_jobs() has returned, each job it reset is queued
\* with its campaign's status running, or failed with its campaign's status
\* not in progress; none is completed.
C12_RecoverAgrees ==
  \A w \in Workers, c \in Campaigns :
    (wpc[w] = "recover" /\ wrec[w] = << >> /\ Recovered(c)) =>
      /\ jobs[c].status \in { "queued", "failed" }
      /\ jobs[c].status = "queued" => campaigns[c].status = "running"
      /\ jobs[c].status = "failed" => campaigns[c].status \notin InProgress

\* the pending rows of the approvals table for a campaign and approval type
Pending(c, kind) ==
  { r \in approvals :
      r.campaign_id = c /\ r.approval_type = kind /\ r.status = "pending" }

\* C13: the approvals table never holds two pending rows for the same
\* campaign and approval type.
C13_OnePendingApproval ==
  \A c \in Campaigns, r \in approvals :
    Cardinality(Pending(c, r.approval_type)) <= 1

\* C16: a campaign's status is failed only while its job's status is failed:
\* a job that fail() re-queued, or that is running again, has a campaign
\* whose status is not failed.
C16_FailedTogether ==
  \A c \in Campaigns :
    campaigns[c].status = "failed" => jobs[c].status = "failed"

\* C19: a campaign whose job is queued or running, or that a worker is
\* executing (waiting at an approval gate included), is not deleted: its
\* campaigns row is in place.
C19_NoDeleteWhileRunning ==
  \A c \in Campaigns :
    (jobs[c].status \in { "queued", "running" } \/ Executors(c) # {})
      => campaigns[c].exists

GateState(approval_type) ==
  CASE approval_type = "strategy" -> "awaiting_brief_approval"
    [] approval_type = "creators" -> "awaiting_creator_approval"
    [] approval_type = "outreach" -> "awaiting_outreach_approval"
    [] approval_type = "terms" -> "awaiting_terms_approval"
    [] OTHER -> "none"

\* C24: the Awaiting*Approval state is entered before the approval request
\* runs: whenever execute_campaign is about to execute a request_approval or
\* request_terms_approval action, the context is in the gate's state and
\* on_step has written that state to the campaign.
C24_AwaitingBeforeRequest ==
  \A w \in Workers :
    wpc[w] = "request" =>
      /\ IsRequest(wact[w])
      /\ wctx[w].state = GateState(wact[w].approval_type)
      /\ campaigns[wjob[w]].exists =>
            campaigns[wjob[w]].agent_state = wctx[w].state

\* the terms request is about to run, after the earlier gates were passed
C24_Witness ==
  /\ wpc["w1"] = "request"
  /\ wact["w1"].type = "request_terms_approval"
  /\ wctx["w1"].state = "awaiting_terms_approval"
  /\ campaigns["c1"].agent_state = "awaiting_terms_approval"

(***************************************************************************)
(* backend/api/routes/webhooks.py, services/response_router.py,             *)
(* backend/db/repositories/email_event_repo.py                              *)
(***************************************************************************)
\* webhook deliveries and engagement route calls handled
MaxDeliveries == 3

\* inbound payloads: the sender, the text, the message id the reply refers to
ReplyPayloads ==
  [ kind : {"reply"}, from_email : {"a@x", "b@x", "z@x"},
    body : {"hi", "ok", ""}, message_id : {"", "m1"} ]

\* delivery payloads: data.email_id and the type with "email." removed
EventPayloads ==
  [ kind : {"event"}, email_id : {"e1", ""}, event_type : {"delivered", "opened"} ]

NoRequest == [ kind |-> "none" ]

\* the Svix headers of a request: none, a signature that verifies, one that
\* does not (wrong, or a timestamp older than five minutes)
Signatures == { "absent", "valid", "invalid" }

\* the engagements outreach was sent for: (campaign_id, creator_id)
Targets == { << "c1", "k1" >>, << "c2", "k2" >> }

\* no entry (mapping.get() and _lookup_by_email() answer None)
NoTarget == << "", "" >>

\* outreach_message_ids.json as _log_message_ids() wrote it: message id ->
\* (campaign_id, creator_id); m1 was sent to k1 of campaign c1
message_mapping(m) == IF m = "m1" THEN << "c1", "k1" >> ELSE NoTarget

\* _lookup_by_email: the (campaign_id, creator_id) of the first message in
\* an outreach_sent_<campaign>.json file that was sent to this address
lookup_by_email(e) ==
  IF e = "a@x" THEN << "c1", "k1" >>
  ELSE IF e = "b@x" THEN << "c2", "k2" >>
  ELSE NoTarget

\* _compute_inbound_dedup_key: "msgid:<id>", else "hash:" and the first 32
\* hex digits of sha256("<from>:<body>"), one value per (from, body)
compute_inbound_dedup_key(from_email, body, message_id) ==
  IF message_id # "" THEN << "msgid", message_id >>
  ELSE << "hash", from_email, body >>

\* the same lookups with the sender's address consulted before the id
resolve_address_first(p) ==
  LET byaddr == IF p.from_email # "" THEN lookup_by_email(p.from_email) ELSE NoTarget
      entry == IF p.message_id # "" THEN message_mapping(p.message_id) ELSE NoTarget
  IN  IF byaddr[1] # "" THEN byaddr ELSE entry

\* ingest_response, lines 90-109: the (campaign_id, creator_id) the reply is
\* routed to, NoTarget when it answers success = False.  The entry of the
\* message id first; the sender's address when that left campaign_id unset.
resolve(p) ==
  LET entry == IF p.message_id # "" THEN message_mapping(p.message_id) ELSE NoTarget
      found == IF entry[1] = "" /\ p.from_email # ""
               THEN lookup_by_email(p.from_email) ELSE entry
  IN  IF found[1] = "" \/ found[2] = "" THEN NoTarget ELSE found

\* an engagement the file has no entry for
NoEngagement == [ status |-> "absent", message_history |-> << >> ]

\* ingest_response, lines 111-133: append the message, set status responded
ingest_response(eng, k, body) ==
  [ eng EXCEPT ![k] = [ status |-> "responded",
                        message_history |-> Append(@.message_history, body) ] ]

\* a row of creator_engagements: its status, the length of message_history
EngagementRow(status, messages) == [ status |-> status, messages |-> messages ]

\* get_engagement() answers None
NoEngagementRow == EngagementRow("absent", 0)

RouteCall(op, target, before) == [ op |-> op, target |-> target, before |-> before ]

NoRoute == RouteCall("none", NoTarget, "absent")

\* the requests the server handles at the same time: the sync routes run on
\* the threads of the server's pool, the async webhook on the event loop
Requests == { "r1", "r2" }

\* a request that has not arrived
Idle == [ pc |-> "idle", op |-> "none", proc |-> "none",
          row |-> NoEngagementRow, eng |-> NoEngagement ]

Response(code, ok, duplicate, routed) ==
  [ code |-> code, ok |-> ok, duplicate |-> duplicate, routed |-> routed ]

NoResponse == Response(0, FALSE, FALSE, FALSE)

Stores == [ replies |-> replies, email_events |-> email_events,
            engagement |-> engagement ]

HInit ==
  /\ replies = {}
  /\ email_events = [ e \in {"e1"} \X {"delivered", "opened"} |-> 0 ]
  /\ engagement = [ k \in Targets |-> NoEngagement ]
  /\ hreq = NoRequest
  /\ hresp = NoResponse
  /\ hprev = Stores
  /\ happlied = {}
  /\ delivered = 0
  /\ creator_engagements =
       [ t \in Targets |-> IF t = << "c1", "k1" >>
                           THEN EngagementRow("contacted", 0) ELSE NoEngagementRow ]
  /\ elast = NoRoute
  /\ thread = [ r \in Requests |-> Idle ]
  /\ acked = << >>

\* what every handled request leaves behind for the properties
Handled(p, sig, lookup_ok, resp, applied) ==
  /\ delivered < MaxDeliveries
  /\ delivered' = delivered + 1
  /\ hreq' = [ payload |-> p, sig |-> sig, lookup_ok |-> lookup_ok,
               redelivery |-> p \in happlied ]
  /\ hresp' = resp
  /\ hprev' = Stores
  /\ happlied' = IF applied THEN happlied \cup {p} ELSE happlied

\* the dedup key recorded whatever ingest_response() answered
record_always(success, insert_ok) == insert_ok

\* lines 343-345: record_inbound_reply() is called when ingest_response()
\* answered success, and inserts the key unless the store fails
record_after(success, insert_ok) == success /\ insert_ok

\* POST /webhooks/inbound.  lookup_ok: inbound_reply_exists() reached the
\* store (it answers False when it did not); insert_ok: so did
\* record_inbound_reply() (it swallows the error when it did not); raises:
\* ingest_response() raised before it saved the engagements (answer 500).
inbound_email_webhook(p, sig, lookup_ok, insert_ok, raises) ==
  LET key == compute_inbound_dedup_key(p.from_email, p.body, p.message_id)
      k == resolve(p)
  IN  IF sig = "invalid" THEN
        /\ Handled(p, sig, lookup_ok, Response(400, FALSE, FALSE, FALSE), FALSE)
        /\ UNCHANGED << replies, email_events, engagement >>
      ELSE IF p.from_email = "" \/ p.body = "" THEN
        /\ Handled(p, sig, lookup_ok, Response(400, FALSE, FALSE, FALSE), FALSE)
        /\ UNCHANGED << replies, email_events, engagement >>
      ELSE IF lookup_ok /\ key \in replies THEN
        /\ Handled(p, sig, lookup_ok, Response(200, TRUE, TRUE, FALSE), FALSE)
        /\ UNCHANGED << replies, email_events, engagement >>
      ELSE IF raises THEN
        /\ Handled(p, sig, lookup_ok, Response(500, FALSE, FALSE, FALSE), FALSE)
        /\ UNCHANGED << replies, email_events, engagement >>
      ELSE IF k = NoTarget THEN
        /\ Handled(p, sig, lookup_ok, Response(200, TRUE, FALSE, FALSE), FALSE)
        /\ replies' = IF record_after(FALSE, insert_ok)
                      THEN replies \cup {key} ELSE replies
        /\ UNCHANGED << email_events, engagement >>
      ELSE
        /\ Handled(p, sig, lookup_ok, Response(200, TRUE, FALSE, TRUE), TRUE)
        /\ engagement' = ingest_response(engagement, k, p.body)
        /\ replies' = IF record_after(TRUE, insert_ok)
                      THEN replies \cup {key} ELSE replies
        /\ UNCHANGED email_events

\* POST /webhooks/resend.  lookup_ok: event_exists() reached the store (it
\* answers False when it did not); insert_ok: create_event() returned an id.
resend_webhook(p, sig, lookup_ok, insert_ok) ==
  LET key == << p.email_id, p.event_type >>
  IN  IF sig # "valid" THEN
        /\ Handled(p, sig, lookup_ok, Response(400, FALSE, FALSE, FALSE), FALSE)
        /\ UNCHANGED << replies, email_events, engagement >>
      ELSE IF p.email_id = "" THEN
        /\ Handled(p, sig, lookup_ok, Response(400, FALSE, FALSE, FALSE), FALSE)
        /\ UNCHANGED << replies, email_events, engagement >>
      ELSE IF lookup_ok /\ email_events[key] > 0 THEN
        /\ Handled(p, sig, lookup_ok, Response(200, TRUE, TRUE, FALSE), FALSE)
        /\ UNCHANGED << replies, email_events, engagement >>
      ELSE IF ~insert_ok THEN
        /\ Handled(p, sig, lookup_ok, Response(500, FALSE, FALSE, FALSE), FALSE)
        /\ UNCHANGED << replies, email_events, engagement >>
      ELSE
        /\ Handled(p, sig, lookup_ok, Response(200, TRUE, FALSE, FALSE), TRUE)
        /\ email_events' = [ email_events EXCEPT ![key] = @ + 1 ]
        /\ UNCHANGED << replies, engagement >>

Inbound ==
  /\ \E p \in ReplyPayloads, sig \in Signatures, lookup_ok \in BOOLEAN,
        insert_ok \in BOOLEAN, raises \in BOOLEAN :
       inbound_email_webhook(p, sig, lookup_ok, insert_ok, raises)
  /\ UNCHANGED << creator_engagements, elast, thread, acked >>
  /\ UNCHANGED << tvars, svars >>

Resend ==
  /\ \E p \in EventPayloads, sig \in Signatures, lookup_ok \in BOOLEAN,
        insert_ok \in BOOLEAN : resend_webhook(p, sig, lookup_ok, insert_ok)
  /\ UNCHANGED << creator_engagements, elast, thread, acked >>
  /\ UNCHANGED << tvars, svars >>

(***************************************************************************)
(* backend/api/routes/campaigns.py: the engagement routes, on the          *)
(* creator_engagements table (backend/db/repositories/engagement_repo.py)   *)
(***************************************************************************)
\* what every engagement route call leaves behind: the row after it
Called(op, t, row) ==
  /\ delivered < MaxDeliveries
  /\ delivered' = delivered + 1
  /\ elast' = RouteCall(op, t, creator_engagements[t].status)
  /\ creator_engagements' = [ creator_engagements EXCEPT ![t] = row ]
  /\ UNCHANGED << replies, email_events, engagement, hreq, hresp, hprev, happlied >>
  /\ UNCHANGED << thread, acked >>
  /\ UNCHANGED << tvars, svars >>

\* append_message(): one more message in message_history
append_message(row) == EngagementRow(row.status, row.messages + 1)

\* update_status(): the status is written whatever it was
update_status(row, status) == EngagementRow(status, row.messages)

\* send_counter_offer, lines 372-380: append the offer, status negotiating
counter_offer(row) == update_status(append_message(row), "negotiating")

\* POST /{campaign_id}/reply: 400 without a message, 404 without a row; the
\* message is appended and a responded engagement becomes negotiating
reply_to_creator(t, message) ==
  LET row == creator_engagements[t]
  IN  Called("reply_to_creator", t,
             IF message = "" \/ row = NoEngagementRow THEN row
             ELSE IF row.status = "responded"
             THEN update_status(append_message(row), "negotiating")
             ELSE append_message(row))

\* POST /{campaign_id}/send-counter-offer: 400 without a message, 404
\* without a row
send_counter_offer(t, message) ==
  LET row == creator_engagements[t]
  IN  Called("send_counter_offer", t,
             IF message = "" \/ row = NoEngagementRow THEN row
             ELSE counter_offer(row))

\* POST /{campaign_id}/accept-terms: 404 without a row; status agreed, then
\* the confirmation is appended
accept_terms(t) ==
  LET row == creator_engagements[t]
  IN  Called("accept_terms", t,
             IF row = NoEngagementRow THEN row
             ELSE append_message(update_status(row, "agreed")))

\* PATCH /{campaign_id}/engagements/{creator_id}/status: 400 for a status
\* that is none of the five, 404 without a row
update_engagement_status(t, new_status) ==
  LET row == creator_engagements[t]
  IN  Called("update_engagement_status", t,
             IF new_status \notin EngagementStatus \/ row = NoEngagementRow THEN row
             ELSE update_status(row, new_status))

Messages == { "", "offer" }

Reply == \E t \in Targets, m \in Messages : reply_to_creator(t, m)

CounterOffer == \E t \in Targets, m \in Messages : send_counter_offer(t, m)

AcceptTerms == \E t \in Targets : accept_terms(t)

ManualStatus ==
  \E t \in Targets, st \in EngagementStatus \cup {"bogus"} :
    update_engagement_status(t, st)

(***************************************************************************)
(* The same handlers, two requests at a time: each call of the store is a   *)
(* step of its own.  The requests concern the engagement of creator k1 in   *)
(* campaign c1.                                                             *)
(***************************************************************************)
\* the engagement the requests are about
Engaged == << "c1", "k1" >>

\* the reply event both deliveries of POST /webhooks/inbound carry
Event == [ kind |-> "reply", from_email |-> "a@x", body |-> "hi",
           message_id |-> "m1" ]

\* the routes that call append_message(), on the creator_engagements table
TableOps == { "reply_to_creator", "send_counter_offer", "accept_terms" }

\* the handlers that call ingest_response(), on the engagements file:
\* POST /webhooks/inbound and POST /webhooks/creator-response
FileOps == { "inbound", "creator_response" }

\* the server processes a request can arrive at; they share the table, the
\* ledger and the engagements file
Processes == { "p1", "p2" }

\* inbound_email_webhook is async and awaits nothing after it read the body
\* (webhooks.py:229-377): the event loop of a process runs its inbound
\* handlers one after the other
OnEventLoop(proc) ==
  \E q \in Requests : /\ thread[q].proc = proc
                      /\ thread[q].op = "inbound"
                      /\ thread[q].pc \notin { "idle", "done" }

\* the text request r appends
Text(r, op) == IF op = "inbound" THEN Event.body ELSE r

\* what is left to the other variables of the webhook state
RaceFrame ==
  /\ UNCHANGED << email_events, hreq, hresp, hprev, happlied, delivered, elast >>
  /\ UNCHANGED << tvars, svars >>

\* a request arrives and its handler starts
Arrive(r, op, proc) ==
  /\ thread[r].pc = "idle"
  /\ op = "inbound" => ~OnEventLoop(proc)
  /\ thread' = [thread EXCEPT ![r] =
       [ Idle EXCEPT !.op = op,
                     !.proc = proc,
                     !.pc = IF op \in TableOps THEN "read"
                            ELSE IF op = "inbound" THEN "check" ELSE "load" ]]
  /\ UNCHANGED << replies, engagement, creator_engagements, acked >>
  /\ RaceFrame

\* inbound_email_webhook, lines 325-330: the dedup check
Check(r) ==
  /\ thread[r].pc = "check"
  /\ LET key == compute_inbound_dedup_key(Event.from_email, Event.body,
                                          Event.message_id)
     IN  thread' = [thread EXCEPT ![r].pc =
                      IF key \in replies THEN "done" ELSE "load"]
  /\ UNCHANGED << replies, engagement, creator_engagements, acked >>
  /\ RaceFrame

\* ingest_response, lines 111-122: _load_engagements() reads the file
load_engagements(r) ==
  /\ thread[r].pc = "load"
  /\ thread' = [thread EXCEPT ![r].pc = "save", ![r].eng = engagement[Engaged]]
  /\ UNCHANGED << replies, engagement, creator_engagements, acked >>
  /\ RaceFrame

\* ingest_response, lines 124-140: the reply is appended to what was loaded,
\* _save_engagements() writes the file and success is returned
save_engagements(r) ==
  /\ thread[r].pc = "save"
  /\ LET msg == Text(r, thread[r].op)
     IN  /\ engagement' =
              [engagement EXCEPT ![Engaged] =
                 [ status |-> "responded",
                   message_history |-> Append(thread[r].eng.message_history, msg) ]]
         /\ acked' = Append(acked, [ op |-> thread[r].op, msg |-> msg ])
  /\ thread' = [thread EXCEPT ![r].pc =
                  IF thread[r].op = "inbound" THEN "record" ELSE "done"]
  /\ UNCHANGED << replies, creator_engagements >>
  /\ RaceFrame

\* inbound_email_webhook, lines 343-345: record_inbound_reply(dedup_key)
Record(r) ==
  /\ thread[r].pc = "record"
  /\ replies' = replies \cup
       { compute_inbound_dedup_key(Event.from_email, Event.body, Event.message_id) }
  /\ thread' = [thread EXCEPT ![r].pc = "done"]
  /\ UNCHANGED << engagement, creator_engagements, acked >>
  /\ RaceFrame

\* the reads of a route: get_engagement() of the route and of
\* append_message() (engagement_repo.py:108); accept_terms has written the
\* status agreed before its append_message() reads
Read(r) ==
  /\ thread[r].pc = "read"
  /\ LET row == IF thread[r].op = "accept_terms"
                THEN update_status(creator_engagements[Engaged], "agreed")
                ELSE creator_engagements[Engaged]
     IN  /\ creator_engagements' = [creator_engagements EXCEPT ![Engaged] = row]
         /\ thread' = [thread EXCEPT ![r].pc = "write", ![r].row = row]
  /\ UNCHANGED << replies, engagement, acked >>
  /\ RaceFrame

\* the writes of a route: append_message() updates message_history to the
\* history it read plus the message (engagement_repo.py:114-119) and
\* returns True; reply_to_creator and send_counter_offer then write the status
Write(r) ==
  /\ thread[r].pc = "write"
  /\ LET op == thread[r].op
         status == IF op = "send_counter_offer" THEN "negotiating"
                   ELSE IF op = "reply_to_creator" /\ thread[r].row.status = "responded"
                   THEN "negotiating"
                   ELSE creator_engagements[Engaged].status
     IN  /\ creator_engagements' =
              [creator_engagements EXCEPT ![Engaged] =
                 EngagementRow(status, thread[r].row.messages + 1)]
         /\ acked' = Append(acked, [ op |-> op, msg |-> Text(r, op) ])
  /\ thread' = [thread EXCEPT ![r].pc = "done"]
  /\ UNCHANGED << replies, engagement >>
  /\ RaceFrame

\* C4: once a payload was applied successfully, each further delivery of it
\* that passes the signature check and whose dedup lookup reaches the store
\* changes none of the stores and is answered ok = true, duplicate = true.
C4_RedeliveryIdempotent ==
  (hreq # NoRequest /\ hreq.redelivery /\ hreq.sig # "invalid" /\ hreq.lookup_ok)
    => /\ Stores = hprev
       /\ hresp = Response(200, TRUE, TRUE, FALSE)

\* the last request was a reply that reached ingest_response() and was routed
Routed == hreq # NoRequest /\ hreq.payload.kind = "reply" /\ hresp.routed

\* C11: a routed reply whose in-reply-to id is a key of the sent-message
\* mapping is appended to the engagement recorded for that id and to no
\* other, whatever the sender's address resolves to; the engagement of the
\* sender's address receives a reply only when the id is no key of the mapping.
C11_IdBeforeAddress ==
  Routed =>
    LET p == hreq.payload
        byid == message_mapping(p.message_id)
        t == IF byid # NoTarget THEN byid ELSE lookup_by_email(p.from_email)
    IN  /\ t \in Targets
        /\ engagement[t].message_history
             = Append(hprev.engagement[t].message_history, p.body)
        /\ \A u \in Targets \ {t} : engagement[u] = hprev.engagement[u]

\* a reply to m1 from the address on file for another engagement, and one
\* from an address on file for none, both applied to m1's engagement
C11_Witness ==
  /\ Routed
  /\ hreq.payload.message_id = "m1"
  /\ hreq.payload.from_email = "b@x"
  /\ Len(engagement[<< "c1", "k1" >>].message_history) = 2
  /\ engagement[<< "c2", "k2" >>] = NoEngagement
  /\ \E q \in happlied : q.message_id = "m1" /\ q.from_email = "z@x"

\* the order of the engagement statuses; agreed and declined both close it
Rank(status) ==
  CASE status = "absent" -> 0
    [] status = "contacted" -> 1
    [] status = "responded" -> 2
    [] status = "negotiating" -> 3
    [] status \in { "agreed", "declined" } -> 4

\* the routes that are no manual override
Forward == { "reply_to_creator", "send_counter_offer", "accept_terms" }

\* C14: a reply routed by the webhook leaves its engagement responded and
\* never at an earlier status than before, and reply_to_creator,
\* send_counter_offer and accept_terms never leave the row they were called
\* for at an earlier status than before.
C14_StatusMonotonic ==
  /\ Routed =>
       \A t \in Targets :
         Rank(engagement[t].status) >= Rank(hprev.engagement[t].status)
  /\ elast.op \in Forward =>
       Rank(creator_engagements[elast.target].status) >= Rank(elast.before)

\* C18: with the webhook secret configured, a request whose signature is
\* absent or does not verify (wrong, or a timestamp outside the 300 seconds)
\* is answered 400 and changes neither the ledger, the email events nor an
\* engagement.
C18_SignatureFirst ==
  (hreq # NoRequest /\ hreq.sig # "valid")
    => /\ hresp.code = 400
       /\ Stores = hprev

\* the dedup key of an inbound payload
KeyOf(p) == compute_inbound_dedup_key(p.from_email, p.body, p.message_id)

\* the body of reply p is in the message history of the engagement it is
\* routed to
InHistory(p) ==
  /\ resolve(p) \in Targets
  /\ \E i \in 1..Len(engagement[resolve(p)].message_history) :
       engagement[resolve(p)].message_history[i] = p.body

\* the last request was a reply
LastReply == hreq # NoRequest /\ hreq.payload.kind = "reply"

\* C20: every dedup key in the ledger is the key of a reply that was applied
\* and whose body is in the history of its engagement; a delivery that was
\* not applied (rejected, 500, or not correlated) adds no key, and a
\* delivery is acknowledged as a duplicate only for a key in the ledger.
C20_KeyAfterApplication ==
  /\ \A key \in replies :
       \E p \in happlied : p.kind = "reply" /\ KeyOf(p) = key /\ InHistory(p)
  /\ (LastReply /\ ~hresp.routed) => replies = hprev.replies
  /\ (LastReply /\ hresp.duplicate) => KeyOf(hreq.payload) \in hprev.replies

\* a reply from an unknown sender was answered "not routed" and its key is
\* not in the ledger, which holds the key of the reply applied before it
C20_Witness ==
  /\ LastReply
  /\ hresp = Response(200, TRUE, FALSE, FALSE)
  /\ resolve(hreq.payload) = NoTarget
  /\ KeyOf(hreq.payload) \notin replies
  /\ replies = { << "msgid", "m1" >> }
  /\ Len(engagement[<< "c1", "k1" >>].message_history) = 1

\* C28: dedup never suppresses a distinct reply: a reply is acknowledged as
\* a duplicate only if a reply of the same sender with the same body was
\* applied before, so two replies with different bodies are both appended,
\* also when both refer to the same outreach message.
C28_DistinctRepliesKept ==
  (LastReply /\ hresp.duplicate) =>
    \E p \in happlied :
      /\ p.kind = "reply"
      /\ p.from_email = hreq.payload.from_email
      /\ p.body = hreq.payload.body

\* the messages of the acknowledged appends of these handlers, in order
AckedBy(ops) ==
  LET sel == SelectSeq(acked, LAMBDA a : a.op \in ops)
  IN  [ i \in 1..Len(sel) |-> sel[i].msg ]

\* sequence a can be had from sequence b by leaving entries out
RECURSIVE IsSubSeq(_, _)
IsSubSeq(a, b) ==
  IF a = << >> THEN TRUE
  ELSE IF b = << >> THEN FALSE
  ELSE IF Head(a) = Head(b) THEN IsSubSeq(Tail(a), Tail(b))
  ELSE IsSubSeq(a, Tail(b))

\* every request so far arrived at the same process
OneProcess ==
  \A r, q \in Requests :
    thread[r].pc # "idle" /\ thread[q].pc # "idle" => thread[r].proc = thread[q].proc

\* C26: with one server process no appended message is lost: whatever the
\* interleaving of the requests that append to one engagement's history,
\* every message whose append reported success is in the stored history, in
\* the order of the appends: the row of the table holds as many messages as
\* append_message() acknowledged, and the file holds the replies
\* ingest_response() acknowledged, in that order.
C26_NoLostAppend ==
  OneProcess =>
  /\ creator_engagements[Engaged].messages >= Len(AckedBy(TableOps))
  /\ IsSubSeq(AckedBy(FileOps), engagement[Engaged].message_history)

\* the number of times text x is in sequence h
Count(h, x) == Cardinality({ i \in DOMAIN h : h[i] = x })

\* C27: event application is idempotent under concurrent delivery: when two
\* requests deliver the same reply event and are handled at the same time,
\* then after both returned the reply is in the message history exactly once
\* and its dedup key is in the ledger.
C27_ConcurrentDeliveryOnce ==
  (\A r \in Requests : thread[r].op = "inbound" /\ thread[r].pc = "done")
    => /\ Count(engagement[Engaged].message_history, Event.body) = 1
       /\ compute_inbound_dedup_key(Event.from_email, Event.body, Event.message_id)
            \in replies

(***************************************************************************)
(* The steps of the state-machine checks                                    *)
(***************************************************************************)
\* context.update(result), at most twice with the same result
TUpdate ==
  /\ tapplied < 2
  /\ tctx' = update(tctx, tres)
  /\ tapplied' = tapplied + 1
  /\ tonce' = IF tapplied = 0 THEN update(tctx, tres) ELSE tonce
  /\ taction' = NoAction
  /\ UNCHANGED << tres, tbefore >>
  /\ UNCHANGED << svars, hvars >>

\* agent.reason(context)
TReason ==
  /\ taction = NoAction
  /\ taction' = reason(tctx)
  /\ UNCHANGED << tctx, tres, tbefore, tonce, tapplied >>
  /\ UNCHANGED << svars, hvars >>

TNext == TUpdate \/ TReason

(***************************************************************************)
(* Specifications                                                           *)
(***************************************************************************)
vars == << tvars, svars, hvars >>

\* the steps of a worker process in the quiet environment
QuietStep(w) ==
  \/ WorkerStart(w) \/ RecoverJob(w) \/ RecoverDone(w)
  \/ ClaimSelect(w) \/ ClaimUpdate(w) \/ ExecuteStart(w) \/ Loop(w)
  \/ Request(w) \/ Wait(w) \/ Act(w) \/ ActRaises(w)
  \/ Save(w) \/ Complete(w) \/ Fail(w) \/ MarkFailed(w) \/ Crash(w)

WorkerStep(w) == QuietStep(w) \/ RequestFails(w)

UserStep(c) ==
  \/ run_campaign(c)
  \/ \E row \in approvals, d \in Decisions :
       row.campaign_id = c /\ decide_approval(row, d[1], d[2])

\* every context and every result, the store at rest
InitUpdate == TInit /\ SInit /\ HInit /\ env = "any"

SpecUpdate == InitUpdate /\ [][TNext]_vars

\* nothing enqueued, no worker process running
Init == TIdle /\ SInit /\ HInit /\ env = "any"

\* one worker process, as deployed, and one campaign
Next == WorkerStep("w1") \/ UserStep("c1") \/ delete_campaign("c1")

Spec == Init /\ [][Next]_vars

\* two worker processes on one queue
NextQueue == (\E w \in Workers : QuietStep(w)) \/ UserStep("c1")

\* the same start, in the quiet environment
InitQueue == TIdle /\ SInit /\ HInit /\ env = "quiet"

SpecQueue == InitQueue /\ [][NextQueue]_vars

\* the steps of a worker process whose store may fail a poll of the gate
GateStep(w) == QuietStep(w) \/ PollPending(w) \/ PollFails(w)

\* the same start, the store failing now and then
InitGate == TIdle /\ SInit /\ HInit /\ env = "flaky"

NextGate == GateStep("w1") \/ UserStep("c1")

\* one worker process whose polls of the approval row may fail
SpecGate == InitGate /\ [][NextGate]_vars

\* two requests at a time, each the call of one handler
NextRace ==
  \E r \in Requests :
    \/ \E op \in TableOps \cup FileOps, proc \in Processes : Arrive(r, op, proc)
    \/ Check(r) \/ load_engagements(r) \/ save_engagements(r) \/ Record(r)
    \/ Read(r) \/ Write(r)

\* the requests of the server interleaving at the calls of the store
SpecRace == Init /\ [][NextRace]_vars

\* the webhook endpoints and the engagement routes, one request after another
NextWebhook == Inbound \/ Resend \/ Reply \/ CounterOffer \/ AcceptTerms \/ ManualStatus

SpecWebhook == Init /\ [][NextWebhook]_vars

\* the steps _worker_loop takes by itself while its process lives
WorkerLoop(w) ==
  \/ WorkerStart(w) \/ RecoverJob(w) \/ RecoverDone(w)
  \/ ClaimSelect(w) \/ ClaimUpdate(w) \/ ExecuteStart(w) \/ Loop(w)
  \/ Request(w) \/ Wait(w) \/ Act(w) \/ ActRaises(w)
  \/ Save(w) \/ Complete(w) \/ Fail(w) \/ MarkFailed(w)

\* the brand's user decides an approval of campaign c
Decide(c) ==
  \E row \in approvals, d \in Decisions :
    row.campaign_id = c /\ decide_approval(row, d[1], d[2])

\* the worker keeps running and every approval is decided in the end
SpecLive == Init /\ [][Next]_vars /\ WF_vars(WorkerLoop("w1")) /\ WF_vars(Decide("c1"))

\* one worker process and two campaigns; the user of c1 decides nothing
NextStarve == QuietStep("w1") \/ run_campaign("c1") \/ UserStep("c2")

\* the worker keeps running, the approvals of c2 are decided in the end
SpecStarve ==
  InitQueue /\ [][NextStarve]_vars /\ WF_vars(WorkerLoop("w1")) /\ WF_vars(Decide("c2"))

(***************************************************************************)
(* Properties of the steps of the worker                                    *)
(***************************************************************************)
\* this step is worker w leaving an execute_action() call whose result had
\* success = False or that raised: the context is as it was (update() appends
\* to history for every successful result)
StepFailed(w) ==
  /\ \/ wpc[w] = "act" /\ wpc'[w] \notin { "act", "down" }
     \/ wpc[w] = "request" /\ wpc'[w] \notin { "request", "wait", "down" }
  /\ wctx'[w] = wctx[w]

\* C15: a step whose result has success = False leaves the state where it
\* was and takes the worker to fail(job_id): it is not tried again by
\* execute_campaign's loop.
C15_StepFailurePropagates ==
  [][ \A w \in Workers : StepFailed(w) => wpc'[w] = "failing" ]_vars


\* C17: every enqueued job ends: a job that is queued is later completed or
\* failed, whatever the steps return, when the worker keeps running and the
\* approvals are decided.
C17_JobsFinish ==
  \A c \in Campaigns :
    (jobs[c].status = "queued") ~> (jobs[c].status \in { "completed", "failed" })

\* claim_next() returned job c to a caller in this step
Claimed(c) == jobs[c].status # "running" /\ jobs'[c].status = "running"

\* C22: retries are bounded.  A job's attempts never exceed max_attempts; a
\* claim takes a queued job, never a failed one, and adds exactly one to its
\* attempts; a job is re-queued by fail() or recover_stale_jobs() only while
\* its attempts are below max_attempts.
C22_RetriesBounded ==
  /\ [](\A c \in Campaigns : jobs[c].attempts <= MaxAttempts)
  /\ [][ \A c \in Campaigns :
           /\ Claimed(c) => /\ jobs[c].status = "queued"
                            /\ jobs'[c].attempts = jobs[c].attempts + 1
           /\ (jobs[c].status \in { "running", "failed" } /\ jobs'[c].status = "queued"
                  /\ jobs'[c].attempts # 0)
                => jobs[c].status = "running" /\ jobs[c].attempts < MaxAttempts ]_vars

\* the job of campaign a is held by a worker whose request_approval() polls
\* a row nobody decided yet
Blocked(a) ==
  \E w \in Workers, row \in approvals :
    /\ wpc[w] = "wait" /\ wjob[w] = a
    /\ row.id = wappr[w] /\ row.status = "pending"

\* C23: an instance that waits for its approval does not starve the others:
\* while the job of a waits at a gate nobody decided, a queued job of
\* another campaign b is claimed all the same, the worker being fair.
C23_NoStarvation ==
  \A a, b \in Campaigns :
    a # b => ((Blocked(a) /\ jobs[b].status = "queued") ~> (jobs[b].status # "queued"))

\* worker w's call of complete() or fail() for job c returns in this step
Finishing(w, c) ==
  /\ wpc[w] \in { "complete", "failing" } /\ wjob[w] = c
  /\ wpc'[w] \notin { wpc[w], "down" }

\* C29: terminal job status is stable.  A completed or failed job changes
\* its status only by being enqueued again; complete() and fail() change the
\* status of a job only when it is running and held by the caller, so that
\* complete() never makes a failed or re-queued job completed.
C29_TerminalStable ==
  [][ \A c \in Campaigns :
        /\ (jobs[c].status \in { "completed", "failed" }
               /\ jobs'[c].status # jobs[c].status)
             => jobs'[c] = enqueue(jobs, c)[c]
        /\ \A w \in Workers :
             (Finishing(w, c) /\ jobs'[c].status # jobs[c].status)
               => jobs[c].status = "running" /\ jobs[c].locked_by = w ]_vars

====
